---- MODULE Spec2Model ----
(***************************************************************************)
(* HW2 Programming: the SQL statement builders of db.py (class DB) and the *)
(* FastAPI route handlers of main.py that use them.                        *)
(*                                                                         *)
(* Python values are tagged records, a dict is the sequence of its         *)
(* <<key, value>> items in insertion order, a str is a TLA+ string (or the *)
(* sequence of its code points when it has a character beyond U+00FF), and *)
(* an exception that leaves a function is the record Raise(name).          *)
(***************************************************************************)
EXTENDS Integers, Sequences, FiniteSets, TLC

VARIABLES call, result, student, employee, req, resp, tasks

vars == <<call, result, student, employee, req, resp, tasks>>

(* ------------------------------ bounds --------------------------------- *)

\* largest number of items of a value map or filter map handed to a builder
MaxKeys == 2
\* largest number of names of a column projection
MaxCols == 1
\* largest number of rows of a provisioned table
MaxRows == 2
\* largest number of requests the server has in flight at once
MaxClients == 2

(* --------------------------- Python values ----------------------------- *)

PyNone == [t |-> "none"]
PyStr(s) == [t |-> "str", s |-> s]
\* a str with a character beyond U+00FF, which no string here can hold: the
\* sequence of its code points
PyUnicode(cp) == [t |-> "str", cp |-> cp]
PyInt(n) == [t |-> "int", n |-> n]

\* bool(v) for the scalars of a JSON body
Truthy(v) ==
    CASE v.t = "none" -> FALSE
      [] v.t = "str" -> IF "cp" \in DOMAIN v THEN v.cp # <<>> ELSE v.s # ""
      [] v.t = "int" -> v.n # 0

\* the items of a dict: pairwise distinct keys
IsDict(d) == \A i, j \in 1..Len(d) : d[i][1] = d[j][1] => i = j

\* list(d.keys())
Keys(d) == [i \in 1..Len(d) |-> d[i][1]]

\* list(d.values())
Values(d) == [i \in 1..Len(d) |-> d[i][2]]

\* k in d
HasKey(d, k) == \E i \in 1..Len(d) : d[i][1] = k

\* d.get(k, default)
Get(d, k, default) ==
    IF HasKey(d, k) THEN d[CHOOSE i \in 1..Len(d) : d[i][1] = k][2] ELSE default

\* sep.join(parts)
RECURSIVE Join(_, _)
Join(sep, parts) ==
    IF parts = <<>> THEN ""
    ELSE IF Len(parts) = 1 THEN parts[1]
    ELSE parts[1] \o sep \o Join(sep, Tail(parts))

\* [f"{keyword} = %s" for keyword in d.keys()]
Predicates(d) == [i \in 1..Len(d) |-> d[i][1] \o " = %s"]

(* ------------------------- db.py: the builders ------------------------- *)

Raise(e) == [exc |-> e]
Query(q, a) == [exc |-> "none", query |-> q, args |-> a]

\* the names a function body of db.py can read besides its own parameters
DbGlobals == {"Any", "Dict", "List", "Tuple", "Union", "pymysql", "KV", "Query", "DB"}

\* " WHERE k1 = %s AND k2 = %s", or "" for an empty filter map
where_clause(filters) ==
    IF filters = <<>> THEN "" ELSE " WHERE " \o Join(" AND ", Predicates(filters))

\* line 59 reads `rows`, which is neither a parameter of build_select_query
\* nor a global of db.py: the read raises before anything is built
build_select_query(table, columns, filters) ==
    IF "rows" \notin {"table", "columns", "filters"} \cup DbGlobals
    THEN Raise("NameError")
    ELSE Query("SELECT " \o (IF columns = <<>> THEN "*" ELSE Join(", ", columns))
                   \o " FROM " \o table \o where_clause(filters),
               Values(filters))

\* ["%s"] * n
RECURSIVE Placeholders(_)
Placeholders(n) == IF n = 0 THEN <<>> ELSE <<"%s">> \o Placeholders(n - 1)

\* build_insert_query with a single placeholder whatever the number of keys
build_insert_query_one_placeholder(table, values) ==
    LET attrib_clause == " (" \o Join(", ", Keys(values)) \o ")"
        args == Values(values)
        values_clause == " VALUES (" \o Join(", ", Placeholders(1)) \o ")"
    IN  Query("INSERT INTO " \o table \o attrib_clause \o values_clause, args)

build_insert_query(table, values) ==
    LET attrib_clause == " (" \o Join(", ", Keys(values)) \o ")"
        args == Values(values)
        placeholder == Placeholders(Len(args))
        values_clause == " VALUES (" \o Join(", ", placeholder) \o ")"
    IN  Query("INSERT INTO " \o table \o attrib_clause \o values_clause, args)

\* build_update_query with the filter arguments ahead of the SET arguments
build_update_query_filters_first(table, values, filters) ==
    LET set_clause == "SET " \o Join(", ", Predicates(values))
        args == Values(filters) \o Values(values)
    IN  Query("UPDATE " \o table \o " " \o set_clause \o where_clause(filters), args)

build_update_query(table, values, filters) ==
    LET set_clause == "SET " \o Join(", ", Predicates(values))
        args == Values(values) \o Values(filters)
    IN  Query("UPDATE " \o table \o " " \o set_clause \o where_clause(filters), args)

\* build_delete_query without the test for an empty filter map
build_delete_query_always_where(table, filters) ==
    Query("DELETE FROM " \o table \o " WHERE " \o Join(" AND ", Predicates(filters)),
          Values(filters))

build_delete_query(table, filters) ==
    Query("DELETE FROM " \o table \o where_clause(filters), Values(filters))

(* --------------------- inputs of the builder calls --------------------- *)

TableNames == {"t", "student"}
ColumnNames == {"a", "b", "id"}
Scalars == {PyInt(1), PyInt(5), PyNone}

\* the dicts over ColumnNames and Scalars with at most n items
DictsUpTo(n) ==
    { d \in UNION { [1..k -> ColumnNames \X Scalars] : k \in 0..n } : IsDict(d) }

ColumnLists == UNION { [1..k -> ColumnNames] : k \in 0..MaxCols }

\* the result of a call that has not run yet
Pending == [exc |-> "pending"]

\* the builder calls on maps of at most n items: the function and its arguments
BuildCalls(n) ==
    { [fn |-> "build_select_query", table |-> t, columns |-> c, filters |-> f] :
        t \in TableNames, c \in ColumnLists, f \in DictsUpTo(n) }
    \cup { [fn |-> "build_insert_query", table |-> t, values |-> v] :
        t \in TableNames, v \in DictsUpTo(n) }
    \cup { [fn |-> "build_update_query", table |-> t, values |-> v, filters |-> f] :
        t \in TableNames, v \in DictsUpTo(n), f \in DictsUpTo(n) }
    \cup { [fn |-> "build_delete_query", table |-> t, filters |-> f] :
        t \in TableNames, f \in DictsUpTo(n) }

BuildSelect ==
    /\ call.fn = "build_select_query" /\ result = Pending
    /\ result' = build_select_query(call.table, call.columns, call.filters)
    /\ UNCHANGED <<call, student, employee, req, resp, tasks>>

BuildInsert ==
    /\ call.fn = "build_insert_query" /\ result = Pending
    /\ result' = build_insert_query(call.table, call.values)
    /\ UNCHANGED <<call, student, employee, req, resp, tasks>>

BuildUpdate ==
    /\ call.fn = "build_update_query" /\ result = Pending
    /\ result' = build_update_query(call.table, call.values, call.filters)
    /\ UNCHANGED <<call, student, employee, req, resp, tasks>>

BuildDelete ==
    /\ call.fn = "build_delete_query" /\ result = Pending
    /\ result' = build_delete_query(call.table, call.filters)
    /\ UNCHANGED <<call, student, employee, req, resp, tasks>>

NoCall == [fn |-> "none"]
NoReq == [op |-> "none", id |-> 0, body |-> <<>>]
NoResp == [status |-> 0, exc |-> "none", content |-> [t |-> "text", s |-> ""]]

InitBuild ==
    /\ call \in BuildCalls(MaxKeys)
    /\ result = Pending
    /\ student = <<>>
    /\ employee = <<>>
    /\ req = NoReq
    /\ resp = NoResp
    /\ tasks = <<>>

NextBuild == BuildSelect \/ BuildInsert \/ BuildUpdate \/ BuildDelete

SpecBuild == InitBuild /\ [][NextBuild]_vars

(* ---------------- db.py: running a statement on the tables ------------ *)

\* the columns of the two tables; the first is the auto-increment primary key
Columns(table) ==
    IF table = "student"
    THEN <<"student_id", "first_name", "email", "enrollment_year">>
    ELSE <<"employee_id", "first_name", "email", "employee_type">>

ColumnSet(table) == { Columns(table)[i] : i \in 1..Len(Columns(table)) }

\* WHERE k1 = v1 AND k2 = v2: a comparison with NULL selects no row
Matches(row, filters) ==
    \A i \in 1..Len(filters) :
        /\ filters[i][1] \in DOMAIN row
        /\ filters[i][2] # PyNone
        /\ row[filters[i][1]] = filters[i][2]

\* the rows cur.fetchall() returns for a SELECT: the matching rows, projected
Fetch(rows, columns, filters) ==
    LET hit == SelectSeq(rows, LAMBDA r : Matches(r, filters))
        cols == IF columns = <<>> THEN DOMAIN rows[1]
                ELSE { columns[i] : i \in 1..Len(columns) }
    IN  [i \in 1..Len(hit) |-> [c \in cols |-> hit[i][c]]]

\* the next auto-increment key of a table
NextId(rows, key) ==
    IF rows = <<>> THEN 1
    ELSE 1 + (CHOOSE m \in { rows[i][key].n : i \in 1..Len(rows) } :
                 \A i \in 1..Len(rows) : rows[i][key].n <= m)

\* the table after INSERT INTO table (keys) VALUES (values)
Inserted(table, rows, values) ==
    Append(rows,
           [c \in ColumnSet(table) |->
               IF c = Columns(table)[1] /\ ~HasKey(values, c)
               THEN PyInt(NextId(rows, c))
               ELSE Get(values, c, PyNone)])

\* the table after UPDATE table SET values WHERE filters
Updated(rows, values, filters) ==
    [i \in 1..Len(rows) |->
        IF Matches(rows[i], filters)
        THEN [c \in DOMAIN rows[i] |-> Get(values, c, rows[i][c])]
        ELSE rows[i]]

\* the table after DELETE FROM table WHERE filters
Deleted(rows, filters) == SelectSeq(rows, LAMBDA r : ~Matches(r, filters))

\* DB.select that runs but finds no row
select_finds_nothing(db, table, columns, filters) == [exc |-> "none", rows |-> <<>>]

\* DB.select: line 73 reads `rows`, which is neither a parameter of select nor
\* a global of db.py, so the call raises before build_select_query is reached
select(db, table, columns, filters) ==
    IF "rows" \notin {"self", "table", "columns", "filters"} \cup DbGlobals
    THEN Raise("NameError")
    ELSE LET q == build_select_query(table, columns, filters)
         IN  IF q.exc # "none" THEN Raise(q.exc)
             ELSE [exc |-> "none", rows |-> Fetch(db[table], columns, filters)]

\* a call db.select(...) that passes the keyword arguments kw: a keyword that
\* is not a parameter of select is a TypeError at the call
select_call(kw, db, table, columns, filters) ==
    IF ~(kw \subseteq {"table", "columns", "filters"}) THEN Raise("TypeError")
    ELSE select(db, table, columns, filters)

\* DB.insert, DB.update, DB.delete: build the statement and execute it
insert(db, table, values) ==
    LET q == build_insert_query(table, values)
    IN  IF q.exc # "none" THEN [exc |-> q.exc, db |-> db]
        ELSE [exc |-> "none", db |-> [db EXCEPT ![table] = Inserted(table, @, values)]]

\* (the statement of an empty value map ends in "SET " and the server rejects it)
update(db, table, values, filters) ==
    LET q == build_update_query(table, values, filters)
    IN  IF q.exc # "none" THEN [exc |-> q.exc, db |-> db]
        ELSE IF values = <<>> THEN [exc |-> "ProgrammingError", db |-> db]
        ELSE [exc |-> "none", db |-> [db EXCEPT ![table] = Updated(@, values, filters)]]

delete(db, table, filters) ==
    LET q == build_delete_query(table, filters)
    IN  IF q.exc # "none" THEN [exc |-> q.exc, db |-> db]
        ELSE [exc |-> "none", db |-> [db EXCEPT ![table] = Deleted(@, filters)]]

(* ------------------------ main.py: the handlers ------------------------ *)

Digits == <<"0", "1", "2", "3", "4", "5", "6", "7", "8", "9">>

\* an ASCII decimal digit
IsDigit(c) == \E d \in 1..10 : Digits[d] = c

DigitValue(c) == (CHOOSE d \in 1..10 : Digits[d] = c) - 1

\* the number a string of decimal digits denotes
RECURSIVE Decimal(_)
Decimal(str) ==
    IF Len(str) = 0 THEN 0
    ELSE 10 * Decimal(SubSeq(str, 1, Len(str) - 1))
             + DigitValue(SubSeq(str, Len(str), Len(str)))

\* the code point of the digit zero of every script with decimal digits (Unicode
\* 14.0, the character database of Python 3.11); the digits 1..9 of a script
\* follow its zero
DecimalZeros ==
    {
      48, 1632, 1776, 1984, 2406, 2534, 2662, 2790, 2918, 3046,
      3174, 3302, 3430, 3558, 3664, 3792, 3872, 4160, 4240, 6112,
      6160, 6470, 6608, 6784, 6800, 6992, 7088, 7232, 7248, 42528,
      43216, 43264, 43472, 43504, 43600, 44016, 65296, 66720, 68912, 69734,
      69872, 69942, 70096, 70384, 70736, 70864, 71248, 71360, 71472, 71904,
      72016, 72784, 73040, 73120, 92768, 92864, 93008, 120782, 120792, 120802,
      120812, 120822, 123200, 123632, 125264, 130032
    }

\* the whitespace beyond ASCII
UnicodeSpaces ==
    {133, 160, 5760} \cup 8192..8202 \cup {8232, 8233, 8239, 8287, 12288}

\* the ASCII character int() reads for the code point n: whitespace beyond
\* ASCII is a space and a decimal digit of any script its ASCII digit; the
\* ASCII whitespace, signs and underscore are themselves; every other
\* character, which int() rejects whatever it is, is "?"
AsciiOf(n) ==
    IF n = 9 THEN "\t"
    ELSE IF n = 10 THEN "\n"
    ELSE IF n = 11 THEN ""
    ELSE IF n = 12 THEN "\f"
    ELSE IF n = 13 THEN "\r"
    ELSE IF n = 32 THEN " "
    ELSE IF n = 43 THEN "+"
    ELSE IF n = 45 THEN "-"
    ELSE IF n = 95 THEN "_"
    ELSE IF n \in UnicodeSpaces THEN " "
    ELSE IF \E z \in DecimalZeros : n \in z..(z + 9)
    THEN Digits[n - (CHOOSE z \in DecimalZeros : n \in z..(z + 9)) + 1]
    ELSE "?"

\* AsciiOf over a sequence of code points
RECURSIVE AsciiOfCodePoints(_)
AsciiOfCodePoints(cp) ==
    IF Len(cp) = 0 THEN ""
    ELSE IF Len(cp) = 1 THEN AsciiOf(cp[1])
    ELSE LET half == Len(cp) \div 2
         IN  AsciiOfCodePoints(SubSeq(cp, 1, half))
                 \o AsciiOfCodePoints(SubSeq(cp, half + 1, Len(cp)))

\* the same over a string of characters up to U+00FF, where the only
\* whitespace beyond ASCII is U+0085 and U+00A0 and no digit is beyond ASCII
RECURSIVE AsciiOfChars(_)
AsciiOfChars(str) ==
    IF Len(str) = 0 THEN ""
    ELSE IF Len(str) = 1 THEN (IF str \in {"", " "} THEN " " ELSE str)
    ELSE LET half == Len(str) \div 2
         IN  AsciiOfChars(SubSeq(str, 1, half))
                 \o AsciiOfChars(SubSeq(str, half + 1, Len(str)))

\* the characters of the str v as int() reads them
TransformDecimalAndSpaceToASCII(v) ==
    IF "cp" \in DOMAIN v THEN AsciiOfCodePoints(v.cp) ELSE AsciiOfChars(v.s)

\* the ASCII characters int() skips around a number: space, \t, \n, \v, \f and
\* \r (U+001C..U+001F are not among them)
Whitespace == {" ", "\t", "\n", "", "\f", "\r"}

\* str without the whitespace int() skips at its two ends
RECURSIVE Strip(_)
Strip(str) ==
    IF Len(str) = 0 THEN str
    ELSE IF SubSeq(str, 1, 1) \in Whitespace THEN Strip(SubSeq(str, 2, Len(str)))
    ELSE IF SubSeq(str, Len(str), Len(str)) \in Whitespace
         THEN Strip(SubSeq(str, 1, Len(str) - 1))
    ELSE str

\* str without its underscores
RECURSIVE NoUnderscores(_)
NoUnderscores(str) ==
    IF Len(str) = 0 THEN str
    ELSE (IF SubSeq(str, 1, 1) = "_" THEN "" ELSE SubSeq(str, 1, 1))
             \o NoUnderscores(SubSeq(str, 2, Len(str)))

\* digits, with single underscores between digits only
IsDigitString(str) ==
    /\ Len(str) > 0
    /\ IsDigit(SubSeq(str, 1, 1))
    /\ IsDigit(SubSeq(str, Len(str), Len(str)))
    /\ \A i \in 1..Len(str) : IsDigit(SubSeq(str, i, i)) \/ SubSeq(str, i, i) = "_"
    /\ \A i \in 1..(Len(str) - 1) : ~(SubSeq(str, i, i) = "_" /\ SubSeq(str, i + 1, i + 1) = "_")

\* int(v) for an int or a str, base 10: whitespace and digits beyond ASCII are
\* read as a space and as ASCII digits, surrounding whitespace is dropped, then
\* an optional sign and digits (single underscores between digits allowed);
\* any other str, and one of more than 4300 digits (the default of
\* sys.int_info.default_max_str_digits), is a ValueError
int(v) ==
    IF v.t = "int" THEN [exc |-> "none", n |-> v.n]
    ELSE IF v.t = "str"
    THEN LET body == Strip(TransformDecimalAndSpaceToASCII(v))
             signed == Len(body) > 0 /\ SubSeq(body, 1, 1) \in {"+", "-"}
             digits == IF signed THEN SubSeq(body, 2, Len(body)) ELSE body
             count == Cardinality({i \in 1..Len(digits) : SubSeq(digits, i, i) # "_"})
             n == Decimal(NoUnderscores(digits))
         IN  IF ~IsDigitString(digits) \/ count > 4300
             THEN Raise("ValueError")
             ELSE [exc |-> "none",
                   n |-> IF signed /\ SubSeq(body, 1, 1) = "-" THEN 0 - n ELSE n]
    ELSE Raise("TypeError")

\* str.split(","), a comma never being the last character
RECURSIVE Split(_)
Split(str) ==
    IF \A i \in 1..Len(str) : SubSeq(str, i, i) # "," THEN <<str>>
    ELSE LET k == CHOOSE i \in 1..Len(str) :
                      /\ SubSeq(str, i, i) = ","
                      /\ \A h \in 1..(i - 1) : SubSeq(str, h, h) # ","
         IN  <<SubSeq(str, 1, k - 1)>> \o Split(SubSeq(str, k + 1, Len(str)))

\* d without the key k
Without(d, k) == SelectSeq(d, LAMBDA item : item[1] # k)

\* the content of a JSON response
Text(msg) == [t |-> "text", s |-> msg]
Row(r) == [t |-> "row", row |-> r]
List(rs) == [t |-> "list", rows |-> rs]

\* JSONResponse(content, status_code), the tables as the handler leaves them
Response(code, content, db) == [status |-> code, exc |-> "none", content |-> content, db |-> db]

\* an exception that leaves the handler: the server answers 500
Unhandled(e, db) ==
    [status |-> 500, exc |-> e, content |-> Text("Internal Server Error"), db |-> db]

\* 2016 <= int(year) <= 2023
InYears(n) == 2016 <= n /\ n <= 2023

EmployeeTypes == {"Professor", "Lecturer", "Staff"}

\* (the default [] of query_params.get('fields', []) is as falsy as "")
get_students(db, query_params) ==
    LET rows == Get(query_params, "fields", PyStr(""))
        filters == IF Truthy(rows) THEN Without(query_params, "fields") ELSE query_params
        columns == IF Truthy(rows) THEN Split(rows.s) ELSE <<>>
        r == select_call({"table", "columns", "filters"}, db, "student", columns, filters)
    IN  IF r.exc # "none" THEN Unhandled(r.exc, db)
        ELSE Response(200, List(r.rows), db)

get_student(db, student_id) ==
    LET r == select_call({"rows", "filters"}, db, "student", <<>>,
                         <<<<"student_id", PyInt(student_id)>>>>)
    IN  IF r.exc # "none" THEN Unhandled(r.exc, db)
        ELSE IF r.rows # <<>> THEN Response(200, Row(r.rows[1]), db)
        ELSE Response(404, Text("Student record not found!"), db)

post_student(db, json_data) ==
    LET email == Get(json_data, "email", PyNone)
        year == Get(json_data, "enrollment_year", PyNone)
        dup == IF Truthy(email)
               THEN select_call({"filters"}, db, "student", <<>>, <<<<"email", email>>>>)
               ELSE [exc |-> "none", rows |-> <<>>]
        yr == IF Truthy(year) THEN int(year) ELSE [exc |-> "none", n |-> 0]
    IN  IF dup.exc # "none" THEN Unhandled(dup.exc, db)
        ELSE IF yr.exc # "none" THEN Unhandled(yr.exc, db)
        ELSE LET email_check == ~Truthy(email) \/ dup.rows # <<>>
                 year_check == ~Truthy(year) \/ ~InYears(yr.n)
                 ins == insert(db, "student", json_data)
             IN  IF email_check \/ year_check
                 THEN Response(400, Text("Invalid input! Please ensure email is included and unique, enrollment year is b/w 2016-2023"), db)
                 ELSE IF ins.exc # "none" THEN Unhandled(ins.exc, ins.db)
                 ELSE Response(201, Text("Successfully inserted record!"), ins.db)

put_student(db, student_id, json_data) ==
    LET email == Get(json_data, "email", PyStr("empty"))
        year == Get(json_data, "enrollment_year", PyNone)
        dup == IF email # PyStr("empty") /\ Truthy(email)
               THEN select_call({"filters"}, db, "student", <<>>, <<<<"email", email>>>>)
               ELSE [exc |-> "none", rows |-> <<>>]
        yr == IF Truthy(year) THEN int(year) ELSE [exc |-> "none", n |-> 0]
        found == select_call({"filters"}, db, "student", <<>>,
                             <<<<"student_id", PyInt(student_id)>>>>)
    IN  IF dup.exc # "none" THEN Unhandled(dup.exc, db)
        ELSE IF yr.exc # "none" THEN Unhandled(yr.exc, db)
        ELSE IF found.exc # "none" THEN Unhandled(found.exc, db)
        ELSE LET email_check == email # PyStr("empty") /\ (~Truthy(email) \/ dup.rows # <<>>)
                 year_check == ~Truthy(year) \/ ~InYears(yr.n)
                 upd == update(db, "student", json_data,
                               <<<<"student_id", PyInt(student_id)>>>>)
             IN  IF found.rows = <<>>
                 THEN Response(404, Text("Student Record not found!"), db)
                 ELSE IF email_check \/ year_check
                 THEN Response(400, Text("Invalid input! Please ensure email is included and unique, enrollment year is b/w 2016-2023"), db)
                 ELSE IF upd.exc # "none" THEN Unhandled(upd.exc, upd.db)
                 ELSE Response(200, Text("Successfully updated record!"), upd.db)

delete_student(db, student_id) ==
    LET found == select_call({"filters"}, db, "student", <<>>,
                             <<<<"student_id", PyInt(student_id)>>>>)
        del == delete(db, "student", <<<<"student_id", PyInt(student_id)>>>>)
    IN  IF found.exc # "none" THEN Unhandled(found.exc, db)
        ELSE IF found.rows = <<>>
        THEN Response(404, Text("Student Record not found!"), db)
        ELSE IF del.exc # "none" THEN Unhandled(del.exc, del.db)
        ELSE Response(200, Text("Successfully deleted record!"), del.db)

get_employees(db, query_params) ==
    LET rows == Get(query_params, "fields", PyStr(""))
        filters == IF Truthy(rows) THEN Without(query_params, "fields") ELSE query_params
        columns == IF Truthy(rows) THEN Split(rows.s) ELSE <<>>
        r == select_call({"table", "columns", "filters"}, db, "employee", columns, filters)
    IN  IF r.exc # "none" THEN Unhandled(r.exc, db)
        ELSE Response(200, List(r.rows), db)

get_employee(db, employee_id) ==
    LET r == select_call({"rows", "filters"}, db, "employee", <<>>,
                         <<<<"employee_id", PyInt(employee_id)>>>>)
    IN  IF r.exc # "none" THEN Unhandled(r.exc, db)
        ELSE IF r.rows # <<>> THEN Response(200, Row(r.rows[1]), db)
        ELSE Response(404, Text("Employee record not found!"), db)

post_employee(db, json_data) ==
    LET email == Get(json_data, "email", PyNone)
        job == Get(json_data, "employee_type", PyNone)
        dup == IF Truthy(email)
               THEN select_call({"filters"}, db, "employee", <<>>, <<<<"email", email>>>>)
               ELSE [exc |-> "none", rows |-> <<>>]
    IN  IF dup.exc # "none" THEN Unhandled(dup.exc, db)
        ELSE LET email_check == ~Truthy(email) \/ dup.rows # <<>>
                 job_check == ~Truthy(job) \/ ~(job.t = "str" /\ "s" \in DOMAIN job /\ job.s \in EmployeeTypes)
                 ins == insert(db, "employee", json_data)
             IN  IF email_check \/ job_check
                 THEN Response(400, Text("Invalid input! Please ensure email is included and unique, employee_type is one of Professor / Lecturer / Staff"), db)
                 ELSE IF ins.exc # "none" THEN Unhandled(ins.exc, ins.db)
                 ELSE Response(201, Text("Successfully inserted record!"), ins.db)

put_employee(db, employee_id, json_data) ==
    LET email == Get(json_data, "email", PyStr("empty"))
        job == Get(json_data, "employee_type", PyNone)
        dup == IF email # PyStr("empty") /\ Truthy(email)
               THEN select_call({"filters"}, db, "employee", <<>>, <<<<"email", email>>>>)
               ELSE [exc |-> "none", rows |-> <<>>]
        found == select_call({"filters"}, db, "employee", <<>>,
                             <<<<"employee_id", PyInt(employee_id)>>>>)
    IN  IF dup.exc # "none" THEN Unhandled(dup.exc, db)
        ELSE IF found.exc # "none" THEN Unhandled(found.exc, db)
        ELSE LET email_check == email # PyStr("empty") /\ (~Truthy(email) \/ dup.rows # <<>>)
                 job_check == ~Truthy(job) \/ ~(job.t = "str" /\ "s" \in DOMAIN job /\ job.s \in EmployeeTypes)
                 upd == update(db, "employee", json_data,
                               <<<<"employee_id", PyInt(employee_id)>>>>)
             IN  IF found.rows = <<>>
                 THEN Response(404, Text("Employee Record not found!"), db)
                 ELSE IF email_check \/ job_check
                 THEN Response(400, Text("Invalid input! Please ensure email is included and unique, employee_type is one of Professor / Lecturer / Staff"), db)
                 ELSE IF upd.exc # "none" THEN Unhandled(upd.exc, upd.db)
                 ELSE Response(200, Text("Successfully updated record!"), upd.db)

delete_employee(db, employee_id) ==
    LET found == select_call({"filters"}, db, "employee", <<>>,
                             <<<<"employee_id", PyInt(employee_id)>>>>)
        del == delete(db, "employee", <<<<"employee_id", PyInt(employee_id)>>>>)
    IN  IF found.exc # "none" THEN Unhandled(found.exc, db)
        ELSE IF found.rows = <<>>
        THEN Response(404, Text("Employee Record not found!"), db)
        ELSE IF del.exc # "none" THEN Unhandled(del.exc, del.db)
        ELSE Response(200, Text("Successfully deleted record!"), del.db)

(* --------------------- the service: one step per request --------------- *)

\* the tables the handlers read and write
Db == [student |-> student, employee |-> employee]

\* the ids of the requests: the first key and one that no provisioned row has
Ids == {1, MaxRows + 1}
Emails == <<"a@x", "b@x", "c@x", "d@x">>

\* JSON bodies: any subset of the columns, the keys in column order
FirstNames == {PyStr("Joe")}
BodyEmails == {PyNone, PyStr("a@x"), PyStr("d@x"), PyStr("empty")}
BodyYears == 
    {PyInt(0), PyInt(2020), PyUnicode(<<12288, 1634, 1632, 1633, 1637>>), 
     PyStr("+2_020 "), PyStr("abc")}
BodyTypes == {PyNone, PyStr("Staff"), PyStr("Student")}

Item(k, vs) == {<<>>} \cup { <<<<k, v>>>> : v \in vs }

StudentBodies ==
    { f \o e \o y : f \in Item("first_name", FirstNames), e \in Item("email", BodyEmails),
                    y \in Item("enrollment_year", BodyYears) }

EmployeeBodies ==
    { f \o e \o y : f \in Item("first_name", FirstNames), e \in Item("email", BodyEmails),
                    y \in Item("employee_type", BodyTypes) }

QueryParams ==
    { <<>>, <<<<"email", PyStr("a@x")>>>>, <<<<"fields", PyStr("first_name,email")>>>>,
      <<<<"first_name", PyStr("Ann")>>, <<"fields", PyStr("email")>>>> }

Request(op, id, body) == [op |-> op, id |-> id, body |-> body]

\* what the client sees of the outcome r of a handler
Reply(r) == [status |-> r.status, exc |-> r.exc, content |-> r.content]

GetStudents ==
    \E q \in QueryParams :
        LET r == get_students(Db, q)
        IN  /\ req' = Request("GET /students", 0, q)
            /\ resp' = Reply(r)
            /\ student' = r.db.student /\ employee' = r.db.employee
            /\ UNCHANGED <<call, result, tasks>>

GetStudent ==
    \E id \in Ids :
        LET r == get_student(Db, id)
        IN  /\ req' = Request("GET /students/{id}", id, <<>>)
            /\ resp' = Reply(r)
            /\ student' = r.db.student /\ employee' = r.db.employee
            /\ UNCHANGED <<call, result, tasks>>

PostStudent ==
    \E b \in StudentBodies :
        LET r == post_student(Db, b)
        IN  /\ req' = Request("POST /students", 0, b)
            /\ resp' = Reply(r)
            /\ student' = r.db.student /\ employee' = r.db.employee
            /\ UNCHANGED <<call, result, tasks>>

PutStudent ==
    \E id \in Ids, b \in StudentBodies :
        LET r == put_student(Db, id, b)
        IN  /\ req' = Request("PUT /students/{id}", id, b)
            /\ resp' = Reply(r)
            /\ student' = r.db.student /\ employee' = r.db.employee
            /\ UNCHANGED <<call, result, tasks>>

DeleteStudent ==
    \E id \in Ids :
        LET r == delete_student(Db, id)
        IN  /\ req' = Request("DELETE /students/{id}", id, <<>>)
            /\ resp' = Reply(r)
            /\ student' = r.db.student /\ employee' = r.db.employee
            /\ UNCHANGED <<call, result, tasks>>

GetEmployees ==
    \E q \in QueryParams :
        LET r == get_employees(Db, q)
        IN  /\ req' = Request("GET /employees", 0, q)
            /\ resp' = Reply(r)
            /\ student' = r.db.student /\ employee' = r.db.employee
            /\ UNCHANGED <<call, result, tasks>>

GetEmployee ==
    \E id \in Ids :
        LET r == get_employee(Db, id)
        IN  /\ req' = Request("GET /employees/{id}", id, <<>>)
            /\ resp' = Reply(r)
            /\ student' = r.db.student /\ employee' = r.db.employee
            /\ UNCHANGED <<call, result, tasks>>

PostEmployee ==
    \E b \in EmployeeBodies :
        LET r == post_employee(Db, b)
        IN  /\ req' = Request("POST /employees", 0, b)
            /\ resp' = Reply(r)
            /\ student' = r.db.student /\ employee' = r.db.employee
            /\ UNCHANGED <<call, result, tasks>>

PutEmployee ==
    \E id \in Ids, b \in EmployeeBodies :
        LET r == put_employee(Db, id, b)
        IN  /\ req' = Request("PUT /employees/{id}", id, b)
            /\ resp' = Reply(r)
            /\ student' = r.db.student /\ employee' = r.db.employee
            /\ UNCHANGED <<call, result, tasks>>

DeleteEmployee ==
    \E id \in Ids :
        LET r == delete_employee(Db, id)
        IN  /\ req' = Request("DELETE /employees/{id}", id, <<>>)
            /\ resp' = Reply(r)
            /\ student' = r.db.student /\ employee' = r.db.employee
            /\ UNCHANGED <<call, result, tasks>>

\* the tables as provisioned: keys 1..n, pairwise distinct non-null emails
StudentRow(i, e) ==
    [student_id |-> PyInt(i), first_name |-> PyStr("Ann"), email |-> PyStr(e),
     enrollment_year |-> PyInt(2016 + i)]

EmployeeRow(i, e) ==
    [employee_id |-> PyInt(i), first_name |-> PyStr("Ann"), email |-> PyStr(e),
     employee_type |-> PyStr("Staff")]

Init ==
    /\ call = NoCall
    /\ result = Pending
    /\ \E n \in 0..MaxRows : student = [i \in 1..n |-> StudentRow(i, Emails[i])]
    /\ \E n \in 0..MaxRows : employee = [i \in 1..n |-> EmployeeRow(i, Emails[i])]
    /\ req = NoReq
    /\ resp = NoResp
    /\ tasks = <<>>

Next ==
    \/ GetStudents \/ GetStudent \/ PostStudent \/ PutStudent \/ DeleteStudent
    \/ GetEmployees \/ GetEmployee \/ PostEmployee \/ PutEmployee \/ DeleteEmployee

Spec == Init /\ [][Next]_vars

(* ------------- the service under concurrent requests ------------------- *)

\* main.py 383-384 start one server process with one event loop, and every
\* handler is an `async def` coroutine on it: once resumed it keeps the loop
\* until it reaches an await or returns.  tasks[s] is the coroutine of the
\* s-th request in flight and tasks[s].pc the place where it stands: "json"
\* at `await req.json()`, "mutate" between its pre-check and its call of
\* db.insert or db.update, "done" after its return.

Slots == 1..MaxClients

\* the places at which the coroutine awaits: `await req.json()` is the only
\* await of post_student, put_student, post_employee and put_employee
AwaitPoints == {"json"}

\* the route of a request to its handler
Handle(db, op, id, body) ==
    CASE op = "POST /students" -> post_student(db, body)
      [] op = "PUT /students/{id}" -> put_student(db, id, body)
      [] op = "POST /employees" -> post_employee(db, body)
      [] op = "PUT /employees/{id}" -> put_employee(db, id, body)

\* the last statement before the return of a handler whose checks have passed
Mutate(db, op, id, body) ==
    LET w == CASE op = "POST /students" -> insert(db, "student", body)
               [] op = "PUT /students/{id}" ->
                      update(db, "student", body, <<<<"student_id", PyInt(id)>>>>)
               [] op = "POST /employees" -> insert(db, "employee", body)
               [] op = "PUT /employees/{id}" ->
                      update(db, "employee", body, <<<<"employee_id", PyInt(id)>>>>)
        ok == IF op \in {"POST /students", "POST /employees"} THEN 201 ELSE 200
        msg == IF ok = 201 THEN "Successfully inserted record!"
               ELSE "Successfully updated record!"
    IN  IF w.exc # "none" THEN Unhandled(w.exc, w.db)
        ELSE Response(ok, Text(msg), w.db)

\* the requests of the concurrent clients
ConcRequests ==
    { Request(op, 0, b) : op \in {"POST /students"},
        b \in { <<<<"email", PyStr("d@x")>>, <<"enrollment_year", PyInt(2020)>>>>,
                <<<<"email", PyStr("a@x")>>, <<"enrollment_year", PyInt(2020)>>>>,
                <<<<"first_name", PyStr("Joe")>>>> } }
    \cup { Request("PUT /students/{id}", 1, b) :
        b \in { <<<<"email", PyStr("d@x")>>, <<"enrollment_year", PyInt(2020)>>>>,
                <<<<"first_name", PyStr("Joe")>>>> } }
    \cup { Request("POST /employees", 0, b) :
        b \in { <<<<"email", PyStr("d@x")>>, <<"employee_type", PyStr("Staff")>>>>,
                <<<<"employee_type", PyStr("Staff")>>>> } }
    \cup { Request("PUT /employees/{id}", 1, b) :
        b \in { <<<<"email", PyStr("d@x")>>, <<"employee_type", PyStr("Staff")>>>> } }

IdleTask ==
    [pc |-> "idle", op |-> "none", id |-> 0, body |-> <<>>, status |-> 0,
     overlap |-> FALSE, fresh |-> FALSE]

InFlight(t) == t.pc \notin {"idle", "done"}

\* the coroutine has been resumed and has neither awaited nor returned: it
\* holds the event loop
Running(t) == InFlight(t) /\ t.pc \notin AwaitPoints

\* the table a request reads and writes
TableOf(op) == IF op \in {"POST /students", "PUT /students/{id}"} THEN student ELSE employee

\* a request arrives: its handler starts and awaits the body.  overlap records that another request was in flight at that moment
Receive(s) ==
    /\ tasks[s].pc = "idle"
    /\ \E r \in ConcRequests :
        LET others == \E o \in Slots \ {s} : InFlight(tasks[o])
        IN  tasks' = [o \in Slots |->
                IF o = s
                THEN [pc |-> "json", op |-> r.op, id |-> r.id, body |-> r.body,
                      status |-> 0, overlap |-> others, fresh |-> FALSE]
                ELSE IF InFlight(tasks[o]) THEN [tasks[o] EXCEPT !.overlap = TRUE]
                ELSE tasks[o]]
    /\ UNCHANGED <<call, result, student, employee, req, resp>>

\* the coroutine of s goes on, once the event loop is free or its own.  From "json" it runs its checks: it answers at once when one of
\* them fails or raises, and stands before its write when they pass (a handler
\* whose checks pass answers 200 or 201, the value map of its write not being
\* empty).  From "mutate" it writes and answers.  fresh records that the
\* email of the body was in no row of the table when the pre-check ran
Resume(s) ==
    /\ InFlight(tasks[s])
    /\ \A o \in Slots \ {s} : ~Running(tasks[o])
    /\ LET t == tasks[s]
           email == Get(t.body, "email", PyNone)
           r == IF t.pc = "mutate" THEN Mutate(Db, t.op, t.id, t.body)
                ELSE Handle(Db, t.op, t.id, t.body)
           passes == t.pc = "json" /\ r.exc = "none" /\ r.status \in {200, 201}
           absent == /\ email # PyNone
                     /\ \A i \in 1..Len(TableOf(t.op)) : TableOf(t.op)[i]["email"] # email
           checked == [t EXCEPT !.fresh = IF t.pc = "json" THEN absent ELSE @]
       IN  IF passes
           THEN /\ tasks' = [tasks EXCEPT ![s] = [checked EXCEPT !.pc = "mutate"]]
                /\ UNCHANGED <<call, result, student, employee, req, resp>>
           ELSE /\ tasks' = [tasks EXCEPT
                                 ![s] = [checked EXCEPT !.pc = "done", !.status = r.status]]
                /\ req' = Request(t.op, t.id, t.body)
                /\ resp' = Reply(r)
                /\ student' = r.db.student /\ employee' = r.db.employee
                /\ UNCHANGED <<call, result>>

InitConc ==
    /\ call = NoCall
    /\ result = Pending
    /\ \E n \in 0..MaxRows : student = [i \in 1..n |-> StudentRow(i, Emails[i])]
    /\ employee = <<EmployeeRow(1, Emails[1])>>
    /\ req = NoReq
    /\ resp = NoResp
    /\ tasks = [s \in Slots |-> IdleTask]

NextConc == \E s \in Slots : Receive(s) \/ Resume(s)

\* the event loop runs every coroutine that is ready
SpecConc == InitConc /\ [][NextConc]_vars /\ \A s \in Slots : WF_vars(Resume(s))

(* ------------------- properties of the builders ----------------------- *)

Done == result # Pending

\* number of occurrences of pat in the string s
RECURSIVE CountFrom(_, _, _)
CountFrom(s, pat, i) ==
    IF i + Len(pat) - 1 > Len(s) THEN 0
    ELSE IF SubSeq(s, i, i + Len(pat) - 1) = pat
         THEN 1 + CountFrom(s, pat, i + Len(pat))
         ELSE CountFrom(s, pat, i + 1)

CountOcc(s, pat) == CountFrom(s, pat, 1)

\* names[1] suffix sep names[2] suffix sep ... names[n] suffix, built from the left
RECURSIVE Listed(_, _, _)
Listed(names, sep, suffix) ==
    IF Len(names) = 0 THEN ""
    ELSE Listed(SubSeq(names, 1, Len(names) - 1), sep, suffix)
             \o (IF Len(names) > 1 THEN sep ELSE "") \o names[Len(names)] \o suffix

\* the WHERE clause the specification asks for
WhereText(F) == IF Len(F) = 0 THEN "" ELSE " WHERE " \o Listed(Keys(F), " AND ", " = %s")

\* args holds exactly the values of the items of d, in order, from position off + 1
ArgsAre(args, off, d) == \A i \in 1..Len(d) : args[off + i] = d[i][2]

\* C1: build_select_query(t, C, F) returns 'SELECT <cols> FROM t' (<cols> is '*'
\* for an empty C, else C joined by ', '), then a WHERE clause of len(F) ANDed
\* 'k = %s' predicates in key order (none for an empty F), with F's values as
\* the argument list
C1_SelectStatement ==
    (call.fn = "build_select_query" /\ Done) =>
        /\ result.exc = "none"
        /\ result.query = "SELECT "
               \o (IF Len(call.columns) = 0 THEN "*" ELSE Listed(call.columns, ", ", ""))
               \o " FROM " \o call.table \o WhereText(call.filters)
        /\ CountOcc(result.query, " = %s") = Len(call.filters)
        /\ Len(result.args) = Len(call.filters)
        /\ ArgsAre(result.args, 0, call.filters)

\* the items whose values the placeholders of a call stand for, in placeholder order
PlaceholderItems(c) ==
    CASE c.fn = "build_select_query" -> c.filters
      [] c.fn = "build_insert_query" -> c.values
      [] c.fn = "build_update_query" -> c.values \o c.filters
      [] c.fn = "build_delete_query" -> c.filters

\* C2: each of the four builders returns, for every input, a query with as many
\* placeholders as arguments, the i-th argument being the value of the column of
\* the i-th placeholder
C2_PlaceholdersMatchArgs ==
    Done =>
        /\ result.exc = "none"
        /\ CountOcc(result.query, "%s") = Len(result.args)
        /\ Len(result.args) = Len(PlaceholderItems(call))
        /\ ArgsAre(result.args, 0, PlaceholderItems(call))

\* C3: build_update_query(t, V, F) returns 'UPDATE t SET k1 = %s, k2 = %s ...'
\* over V's keys in order, then the WHERE clause over F's keys (omitted for an
\* empty F); the arguments are V's values in key order followed by F's values
C3_UpdateStatement ==
    (call.fn = "build_update_query" /\ Done) =>
        /\ result.exc = "none"
        /\ result.query = "UPDATE " \o call.table \o " SET "
               \o Listed(Keys(call.values), ", ", " = %s") \o WhereText(call.filters)
        /\ Len(result.args) = Len(call.values) + Len(call.filters)
        /\ ArgsAre(result.args, 0, call.values)
        /\ ArgsAre(result.args, Len(call.values), call.filters)

C3_Witness ==
    /\ call.fn = "build_update_query" /\ Done
    /\ Len(call.values) = 2 /\ Len(call.filters) = 1
    /\ call.values[1][2] # call.filters[1][2]
    /\ result.query = "UPDATE t SET a = %s, b = %s WHERE id = %s"

\* C4: build_insert_query(t, V) for a non-empty V returns
\* 'INSERT INTO t (<columns>) VALUES (<placeholders>)': V's keys joined by ', ',
\* one placeholder per key, and V's values in key order as the arguments
C4_InsertStatement ==
    (call.fn = "build_insert_query" /\ Done /\ Len(call.values) > 0) =>
        /\ result.exc = "none"
        /\ result.query = "INSERT INTO " \o call.table
               \o " (" \o Listed(Keys(call.values), ", ", "") \o ")"
               \o " VALUES (" \o Listed([i \in 1..Len(call.values) |-> "%s"], ", ", "") \o ")"
        /\ CountOcc(result.query, "%s") = Len(call.values)
        /\ Len(result.args) = Len(call.values)
        /\ ArgsAre(result.args, 0, call.values)

C4_Witness ==
    /\ call.fn = "build_insert_query" /\ Done
    /\ call.values = <<<<"a", PyInt(1)>>, <<"b", PyInt(5)>>>>
    /\ result.query = "INSERT INTO t (a, b) VALUES (%s, %s)"

\* C5: build_delete_query(t, F) returns 'DELETE FROM t' and the WHERE clause over
\* F's keys in order, with F's values as the arguments; for an empty F it is
\* exactly 'DELETE FROM t' with no arguments, never an error
C5_DeleteStatement ==
    (call.fn = "build_delete_query" /\ Done) =>
        /\ result.exc = "none"
        /\ result.query = "DELETE FROM " \o call.table \o WhereText(call.filters)
        /\ Len(call.filters) = 0 =>
               result.query = "DELETE FROM " \o call.table /\ result.args = <<>>
        /\ CountOcc(result.query, "WHERE") = (IF Len(call.filters) = 0 THEN 0 ELSE 1)
        /\ Len(result.args) = Len(call.filters)
        /\ ArgsAre(result.args, 0, call.filters)

C5_Witness ==
    /\ call.fn = "build_delete_query" /\ Done
    /\ call.filters = <<>>
    /\ result = Query("DELETE FROM student", <<>>)

(* ------------------- properties of the handlers ------------------------ *)

\* some row of the table has the key id
HasId(rows, key, id) == \E i \in 1..Len(rows) : rows[i][key] = PyInt(id)

\* some row of the table has the email e
HasEmail(rows, e) == \E i \in 1..Len(rows) : rows[i]["email"] = e

\* the body names the column k
Names(body, k) == \E i \in 1..Len(body) : body[i][1] = k

\* the value the body gives the column k
Given(body, k) == body[CHOOSE i \in 1..Len(body) : body[i][1] = k][2]

\* v is a number of 2016..2023, as an int or as a str that denotes one
ValidYear(v) ==
    \/ v.t = "int" /\ v.n \in 2016..2023
    \/ v.t = "str" /\ int(v).exc = "none" /\ int(v).n \in 2016..2023

ValidType(v) == v.t = "str" /\ "s" \in DOMAIN v /\ v.s \in {"Professor", "Lecturer", "Staff"}

\* the body of a POST /students that has to be refused
RefusedPost(rows, body) ==
    \/ ~Names(body, "email")
    \/ Given(body, "email") = PyNone
    \/ HasEmail(rows, Given(body, "email"))
    \/ ~Names(body, "enrollment_year")
    \/ ~ValidYear(Given(body, "enrollment_year"))

\* new is old with one more row, which holds the body's column values
OneRowAdded(old, new, body) ==
    /\ Len(new) = Len(old) + 1
    /\ SubSeq(new, 1, Len(old)) = old
    /\ \A i \in 1..Len(body) : new[Len(new)][body[i][1]] = body[i][2]

\* C6: POST /students responds 400 and leaves the student table unchanged when
\* the body has no email, its email is already in the table or its enrollment
\* year is outside 2016-2023; otherwise it inserts exactly one row holding the
\* body's column values and responds 201
C6_PostStudentContract ==
    [][req'.op = "POST /students" =>
          IF RefusedPost(student, req'.body)
          THEN resp'.status = 400 /\ student' = student
          ELSE resp'.status = 201 /\ OneRowAdded(student, student', req'.body)]_vars

\* the body of a PUT that has to be refused for an existing row
RefusedPut(rows, body, checked, Valid(_)) ==
    \/ Names(body, "email") /\ Given(body, "email") = PyNone
    \/ Names(body, "email") /\ HasEmail(rows, Given(body, "email"))
    \/ Names(body, checked) /\ ~Valid(Given(body, checked))

\* C7: PUT /students/{id} and PUT /employees/{id} respond 404 when no row has
\* the id, whatever the body, and for an existing id respond 400 when the body
\* sets email to null, sets an email already in the table or carries an invalid
\* enrollment year or employee type; the table is unchanged in both cases
C7_PutRejections ==
    [][/\ req'.op = "PUT /students/{id}" =>
            /\ ~HasId(student, "student_id", req'.id) =>
                   resp'.status = 404 /\ student' = student
            /\ (/\ HasId(student, "student_id", req'.id)
                /\ RefusedPut(student, req'.body, "enrollment_year", ValidYear)) =>
                   resp'.status = 400 /\ student' = student
       /\ req'.op = "PUT /employees/{id}" =>
            /\ ~HasId(employee, "employee_id", req'.id) =>
                   resp'.status = 404 /\ employee' = employee
            /\ (/\ HasId(employee, "employee_id", req'.id)
                /\ RefusedPut(employee, req'.body, "employee_type", ValidType)) =>
                   resp'.status = 400 /\ employee' = employee]_vars

\* new is old with the body's columns set on the row of the key id, and
\* nothing else changed
OnlyBodySet(old, new, key, id, body) ==
    /\ Len(new) = Len(old)
    /\ \A i \in 1..Len(old) : \A c \in DOMAIN old[i] :
           new[i][c] = IF old[i][key] = PyInt(id) /\ Names(body, c)
                       THEN Given(body, c) ELSE old[i][c]

\* C8: a PUT on an existing row whose body names only some columns (no email
\* and no enrollment_year, or for employees no employee_type) responds 200,
\* sets exactly the named columns on that row and changes nothing else
C8_PartialPut ==
    [][/\ (/\ req'.op = "PUT /students/{id}"
           /\ HasId(student, "student_id", req'.id)
           /\ req'.body # <<>>
           /\ ~Names(req'.body, "email") /\ ~Names(req'.body, "enrollment_year")) =>
              /\ resp'.status = 200
              /\ OnlyBodySet(student, student', "student_id", req'.id, req'.body)
              /\ employee' = employee
       /\ (/\ req'.op = "PUT /employees/{id}"
           /\ HasId(employee, "employee_id", req'.id)
           /\ req'.body # <<>>
           /\ ~Names(req'.body, "email") /\ ~Names(req'.body, "employee_type")) =>
              /\ resp'.status = 200
              /\ OnlyBodySet(employee, employee', "employee_id", req'.id, req'.body)
              /\ student' = student]_vars

\* the row of the key id
RowOf(rows, key, id) == rows[CHOOSE i \in 1..Len(rows) : rows[i][key] = PyInt(id)]

\* C9: a POST /students with a new unique email and a valid enrollment year
\* responds 201 and creates the row, and a GET /students/{id} of a row of the
\* table responds 200 with that single row, field by field
C9_PostThenGet ==
    [][/\ (req'.op = "POST /students" /\ ~RefusedPost(student, req'.body)) =>
              resp'.status = 201 /\ OneRowAdded(student, student', req'.body)
       /\ (req'.op = "GET /students/{id}" /\ HasId(student, "student_id", req'.id)) =>
              /\ resp'.status = 200
              /\ resp'.content = [t |-> "row", row |-> RowOf(student, "student_id", req'.id)]
              /\ student' = student]_vars

\* C10: DELETE /students/{id} responds 404 and changes nothing when no row has
\* the id; otherwise it responds 200 and removes exactly that row, and while no
\* row has the id every GET and DELETE of it responds 404
C10_DeleteStudent ==
    [][/\ req'.op = "DELETE /students/{id}" =>
              IF HasId(student, "student_id", req'.id)
              THEN /\ resp'.status = 200
                   /\ student' = SelectSeq(student, LAMBDA r : r["student_id"] # PyInt(req'.id))
              ELSE resp'.status = 404 /\ student' = student
       /\ (req'.op = "GET /students/{id}" /\ ~HasId(student, "student_id", req'.id)) =>
              resp'.status = 404 /\ student' = student]_vars

(* ------------- properties of the service under concurrency ------------- *)

\* the pre-check of the request in slot s has run
Checked(s) == tasks[s].pc \in {"mutate", "done"}

\* the request in slot s has passed its pre-check: it stands before its insert
\* or has inserted
Passed(s) == tasks[s].pc = "mutate" \/ tasks[s].status = 201

\* s1 and s2 are two POST /students requests with the same email and a valid
\* year that were in flight together, and the pre-check of each has run at a
\* moment when the email was in no row of the table, hence before either insert
ConcurrentSamePosts(s1, s2) ==
    /\ s1 # s2
    /\ tasks[s1].op = "POST /students" /\ tasks[s2].op = "POST /students"
    /\ tasks[s1].body = tasks[s2].body
    /\ Names(tasks[s1].body, "enrollment_year")
    /\ ValidYear(Given(tasks[s1].body, "enrollment_year"))
    /\ tasks[s1].overlap /\ tasks[s2].overlap
    /\ Checked(s1) /\ Checked(s2)
    /\ tasks[s1].fresh /\ tasks[s2].fresh

\* C11: the pre-check and the insert are two independent steps that concurrent
\* requests interleave: two concurrent POST requests that carry the same new
\* email and run their pre-checks before either inserts both pass the
\* pre-check and proceed to the insert.  (A pre-check sees the email in no row
\* in exactly the interleavings the claim is about, and there its outcome is
\* fixed by the body; so the interleaving of the claim exists if and only if
\* this holds and a state with two such requests is reached.)
C11_ConcurrentPostsBothPass ==
    \A s1, s2 \in Slots : ConcurrentSamePosts(s1, s2) => Passed(s1) /\ Passed(s2)

(* ------------- the unique email column, one request at a time ---------- *)

\* every row has an email, and no two rows have the same
UniqueEmails(rows) ==
    /\ \A i \in 1..Len(rows) : rows[i]["email"] # PyNone
    /\ \A i, j \in 1..Len(rows) : rows[i]["email"] = rows[j]["email"] => i = j

\* C12: handled one at a time, no sequence of POST, PUT and DELETE requests on
\* tables of pairwise distinct non-null emails leaves a row without an email
\* or two rows with the same email
C12_EmailsStayUnique == UniqueEmails(student) /\ UniqueEmails(employee)

\* a POST or PUT that carries an email some row of the table holds was answered
C12_Witness ==
    /\ req.op \in {"POST /students", "PUT /students/{id}"}
    /\ resp.status # 0
    /\ Len(student) = 2
    /\ Names(req.body, "email")
    /\ HasEmail(student, Given(req.body, "email"))
    /\ Names(req.body, "enrollment_year")
    /\ ValidYear(Given(req.body, "enrollment_year"))

====
